---- MODULE Spec2Model ----
(***************************************************************************)
(* Model of MusicSequencer (src/muzicode.py): the sequencer state, the     *)
(* pattern and melody renderers and the measure mixer.                     *)
(*                                                                         *)
(* An audio buffer is modelled at millisecond granularity as a duration    *)
(* and the list of sample clips laid on a silent timeline:                 *)
(*   [ok |-> TRUE, dur |-> ms, clips |-> << [id, at, len], ... >>]         *)
(* where a clip is the first len ms of the asset id placed at offset at.   *)
(* None is the Python None returned by a failed load or a voided render.   *)
(***************************************************************************)
EXTENDS Integers, Sequences, FiniteSets, TLC

VARIABLES tempo, patterns, melodies, current_playback, assets, handles, last

vars == <<tempo, patterns, melodies, current_playback, assets, handles, last>>

(* ---------------------------------------------------------------- bounds *)
MaxItems == 2
MaxPlays == 2
MaxPatLen == 3
MaxMelLen == 3

(* ------------------------------------------------------ program constants *)
DefaultTempo == 120
MinTempo == 20
MaxTempo == 300
MsPerMinute == 60000
BeatsPerMeasure == 4

(* ------------------------------------------------------------ input sets *)
NotFound == -1
Names == {"drums", "lead"}
PatternNames == {"drums"}
MelodyNames == {"lead"}
Notes == {"C4", "D4"}
TempoInputs == {-5, 19, 20, 300, 301}
FlagValues == {0, 1, 2, -1}
Loads == {NotFound, 900}
RenderLoads == {NotFound, 0, 200, 900}
Filenames == {"out.wav"}

SeqsUpTo(S, n) == UNION {[1..k -> S] : k \in 0..n}

EmptyMap == [x \in {} |-> <<>>]

(* ------------------------------------------------- pydub.AudioSegment ops *)
None == [ok |-> FALSE, dur |-> 0, clips |-> <<>>]

\* AudioSegment.silent(duration=d): int(frame_rate * d / 1000) frames of
\* zero bytes; bytes * negative is empty, so a negative duration gives 0 ms.
Silent(d) == [ok |-> TRUE, dur |-> IF d < 0 THEN 0 ELSE d, clips |-> <<>>]

\* the decoded asset: d ms of the sample stored at path
Sample(path, d) ==
    [ok |-> TRUE, dur |-> d,
     clips |-> IF d > 0 THEN <<[id |-> path, at |-> 0, len |-> d]>> ELSE <<>>]

\* len(segment) in ms
SegLen(seg) == seg.dur

\* truthiness of an Optional[AudioSegment]: None and zero-length are falsy
Truthy(seg) == seg.ok /\ SegLen(seg) # 0

Shift(clips, by) == [i \in 1..Len(clips) |-> [clips[i] EXCEPT !.at = @ + by]]

\* seg1 + seg2 (append with crossfade 0)
Concat(a, b) ==
    [ok |-> TRUE, dur |-> a.dur + b.dur, clips |-> a.clips \o Shift(b.clips, a.dur)]

Min(a, b) == IF a < b THEN a ELSE b
Max(a, b) == IF a > b THEN a ELSE b

TruncClips(clips, dur) ==
    LET kept == SelectSeq(clips, LAMBDA c : c.at < dur)
    IN  [i \in 1..Len(kept) |-> [kept[i] EXCEPT !.len = Min(@, dur - kept[i].at)]]

\* mutant: the overlay grows to the longer of the two segments
Overlay_extending(a, b) ==
    [ok |-> TRUE, dur |-> Max(a.dur, b.dur), clips |-> a.clips \o b.clips]

\* seg1.overlay(seg2): position 0, result as long as seg1, seg2 cut to fit
Overlay(a, b) ==
    [ok |-> TRUE, dur |-> a.dur, clips |-> a.clips \o TruncClips(b.clips, a.dur)]

(* ---------------------------------------------------------- external calls *)
Call(c, path, h) == [call |-> c, path |-> path, h |-> h]
LoadCall(path) == Call("load", path, 0)

(* ------------------------------------------------------------- the loader *)
\* load_audio_file: None when the file is missing or cannot be decoded
load_audio_file(path) ==
    IF assets[path] = NotFound THEN None ELSE Sample(path, assets[path])

SamplePath(name) == <<"samples", name>>
NotePath(note) == <<"notes", note>>

(* ------------------------------------------------------- pattern renderer *)
\* the test of line 119
IsHit(val) == val = 1

\* mutant: the sample is cut to one beat instead of keeping its length
PatternSlot_cut(val, hit_sound, beat_ms) ==
    IF IsHit(val)
    THEN [ok |-> TRUE, dur |-> beat_ms,
          clips |-> TruncClips(hit_sound.clips, beat_ms)]
    ELSE Silent(beat_ms)

\* one iteration of the loop of create_pattern_sound
PatternSlot(val, hit_sound, beat_ms) ==
    IF IsHit(val)
    THEN Concat(hit_sound, Silent(beat_ms - SegLen(hit_sound)))
    ELSE Silent(beat_ms)

RECURSIVE PatternLoop(_, _, _, _)
PatternLoop(pattern, hit_sound, beat_ms, sound) ==
    IF pattern = <<>> THEN sound
    ELSE PatternLoop(Tail(pattern), hit_sound, beat_ms,
                     Concat(sound, PatternSlot(Head(pattern), hit_sound, beat_ms)))

\* the loads create_pattern_sound performs
PatternLoads(name) == <<LoadCall(SamplePath(name))>>

\* mutant: a failed load renders every slot as a rest instead of voiding
create_pattern_sound_unvoided(name, beat_ms) ==
    LET hit_sound == load_audio_file(SamplePath(name))
    IN  PatternLoop(patterns[name],
                    IF Truthy(hit_sound) THEN hit_sound ELSE Silent(0),
                    beat_ms, Silent(0))

create_pattern_sound(name, beat_ms) ==
    LET hit_sound == load_audio_file(SamplePath(name))
    IN  IF ~Truthy(hit_sound) THEN None
        ELSE PatternLoop(patterns[name], hit_sound, beat_ms, Silent(0))

(* -------------------------------------------------------- melody renderer *)
\* mutant: a note that fails to load is dropped instead of becoming a rest
MelodySlot_dropped(note, beat_ms) ==
    LET note_audio == load_audio_file(NotePath(note))
    IN  IF Truthy(note_audio)
        THEN Concat(note_audio, Silent(beat_ms - SegLen(note_audio)))
        ELSE Silent(0)

\* one iteration of the loop of create_melody_sound
MelodySlot(note, beat_ms) ==
    LET note_audio == load_audio_file(NotePath(note))
    IN  IF Truthy(note_audio)
        THEN Concat(note_audio, Silent(beat_ms - SegLen(note_audio)))
        ELSE Silent(beat_ms)

RECURSIVE MelodyLoop(_, _, _)
MelodyLoop(notes, beat_ms, sound) ==
    IF notes = <<>> THEN sound
    ELSE MelodyLoop(Tail(notes), beat_ms,
                    Concat(sound, MelodySlot(Head(notes), beat_ms)))

\* the loads create_melody_sound performs: one per note, in order
MelodyLoads(name) ==
    [i \in 1..Len(melodies[name]) |-> LoadCall(NotePath(melodies[name][i]))]

create_melody_sound(name, beat_ms) == MelodyLoop(melodies[name], beat_ms, Silent(0))

(* ------------------------------------------------------------------ mixer *)
BeatMs(t) == MsPerMinute \div t

\* mutant: the melody map is consulted before the pattern map
Resolve_melody_first(name, beat_ms) ==
    IF name \in DOMAIN melodies
    THEN [kind |-> "melody", sound |-> create_melody_sound(name, beat_ms),
          calls |-> MelodyLoads(name)]
    ELSE IF name \in DOMAIN patterns
    THEN [kind |-> "pattern", sound |-> create_pattern_sound(name, beat_ms),
          calls |-> PatternLoads(name)]
    ELSE [kind |-> "none", sound |-> None, calls |-> <<>>]

\* the body of the loop over items: [sound, calls] for one name
Resolve(name, beat_ms) ==
    IF name \in DOMAIN patterns
    THEN [kind |-> "pattern", sound |-> create_pattern_sound(name, beat_ms),
          calls |-> PatternLoads(name)]
    ELSE IF name \in DOMAIN melodies
    THEN [kind |-> "melody", sound |-> create_melody_sound(name, beat_ms),
          calls |-> MelodyLoads(name)]
    ELSE [kind |-> "none", sound |-> None, calls |-> <<>>]

\* if sound: final = final.overlay(sound)
MixStep(final, sound) == IF Truthy(sound) THEN Overlay(final, sound) ELSE final

RECURSIVE MixLoop(_, _, _)
MixLoop(items, beat_ms, acc) ==
    IF items = <<>> THEN acc
    ELSE LET r == Resolve(Head(items), beat_ms)
         IN  MixLoop(Tail(items), beat_ms,
                     [final |-> MixStep(acc.final, r.sound),
                      calls |-> acc.calls \o r.calls,
                      rendered |-> acc.rendered \o
                          (IF r.kind = "none" THEN <<>>
                           ELSE <<[name |-> Head(items), kind |-> r.kind,
                                   sound |-> r.sound]>>)])

\* lines 70-82 and 92-104: the measure buffer with every item overlaid
Mix(items) ==
    LET beat_ms == BeatMs(tempo)
    IN  MixLoop(items, beat_ms,
                [final |-> Silent(beat_ms * BeatsPerMeasure), calls |-> <<>>,
                 rendered |-> <<>>])

(* ------------------------------------------------------- sequencer state *)
\* what the last operation was given, the external calls it made in order,
\* and the buffer it produced (None when it produced none)
Outcome(op, arg, name, items, calls, out, rendered) ==
    [op |-> op, arg |-> arg, name |-> name, items |-> items, calls |-> calls,
     out |-> out, rendered |-> rendered]

PatternInputs == {<<1, 0>>}
MixPatternInputs == {<<>>, <<0>>, <<1, 0>>}
MelodyInputs == {<<"C4", "D4">>}

SamplePaths == {SamplePath(n) : n \in Names}
NotePaths == {NotePath(n) : n \in Notes}

\* the asset files on disk: each is missing or holds a sample of some length
AssetEnvs == [SamplePaths \cup NotePaths -> Loads]

\* the installations the sequencer runs are taken from: every asset present,
\* except possibly the sample of the pattern drums
InstalledEnvs ==
    {e \in AssetEnvs : \A p \in DOMAIN e : p # SamplePath("drums") => e[p] # NotFound}

\* __init__
Init ==
    /\ tempo = DefaultTempo
    /\ patterns = EmptyMap
    /\ melodies = EmptyMap
    /\ current_playback = 0
    /\ handles = <<>>
    /\ assets \in InstalledEnvs
    /\ last = Outcome("init", 0, "", <<>>, <<>>, None, <<>>)

\* mutant: an out-of-range value resets the tempo to the default
set_tempo_reset(old, new_tempo) ==
    IF MinTempo <= new_tempo /\ new_tempo <= MaxTempo THEN new_tempo ELSE DefaultTempo

\* set_tempo: the tempo after the call
set_tempo(old, new_tempo) ==
    IF MinTempo <= new_tempo /\ new_tempo <= MaxTempo THEN new_tempo ELSE old

TempoWarning == Call("print", <<"tempo fuera de rango">>, 0)
NoItemsError == Call("print", <<"no hay items para mezclar">>, 0)
SavedMessage == Call("print", <<"mezcla guardada">>, 0)

SetTempo(v) ==
    /\ tempo' = set_tempo(tempo, v)
    /\ last' = Outcome("set_tempo", v, "", <<>>,
                       IF MinTempo <= v /\ v <= MaxTempo THEN <<>> ELSE <<TempoWarning>>,
                       None, <<>>)
    /\ UNCHANGED <<patterns, melodies, current_playback, assets, handles>>

\* d[name] = value on a Python dict
DictSet(d, name, value) ==
    [k \in DOMAIN d \cup {name} |-> IF k = name THEN value ELSE d[k]]

\* parse_line, the pattern branch
DefinePattern(name, vals) ==
    /\ patterns' = DictSet(patterns, name, vals)
    /\ last' = Outcome("define_pattern", 0, name, <<>>, <<>>, None, <<>>)
    /\ UNCHANGED <<tempo, melodies, current_playback, assets, handles>>

\* parse_line, the melody branch
DefineMelody(name, notes) ==
    /\ melodies' = DictSet(melodies, name, notes)
    /\ last' = Outcome("define_melody", 0, name, <<>>, <<>>, None, <<>>)
    /\ UNCHANGED <<tempo, patterns, assets, current_playback, handles>>

\* mutant: the previous handle is left playing
stop_playback_skipped(hs, cur) == hs

\* stop_playback: the sink's handles after the call
stop_playback(hs, cur) ==
    IF cur # 0 THEN [hs EXCEPT ![cur].status = "stopped"] ELSE hs

StopCalls(cur) == IF cur # 0 THEN <<Call("stop", <<>>, cur)>> ELSE <<>>

StopPlayback ==
    /\ handles' = stop_playback(handles, current_playback)
    /\ last' = Outcome("stop", 0, "", <<>>, StopCalls(current_playback), None, <<>>)
    /\ UNCHANGED <<tempo, patterns, melodies, current_playback, assets>>

\* the guard of lines 66-68
PlayRejects(items) == items = <<>>

\* the guard of mix_and_save: there is none
SaveRejects(items) == FALSE

\* _play_with_simpleaudio(final): a new handle, playing
StartPlayback(hs, final) == Append(hs, [status |-> "playing", dur |-> SegLen(final)])

mix_and_play(items) ==
    IF PlayRejects(items)
    THEN /\ last' = Outcome("mix", 0, "", items, <<NoItemsError>>, None, <<>>)
         /\ UNCHANGED <<current_playback, handles>>
    ELSE LET m == Mix(items)
             stopped == stop_playback(handles, current_playback)
             started == StartPlayback(stopped, m.final)
         IN  /\ handles' = started
             /\ current_playback' = Len(started)
             /\ last' = Outcome("mix", 0, "", items,
                                m.calls \o StopCalls(current_playback)
                                        \o <<Call("start", <<>>, Len(started))>>,
                                m.final, m.rendered)

MixAndPlay(items) ==
    /\ Len(handles) < MaxPlays
    /\ mix_and_play(items)
    /\ UNCHANGED <<tempo, patterns, melodies, assets>>

mix_and_save(items, filename) ==
    IF SaveRejects(items)
    THEN last' = Outcome("save", 0, filename, items, <<NoItemsError>>, None, <<>>)
    ELSE LET m == Mix(items)
         IN  last' = Outcome("save", 0, filename, items,
                             m.calls \o <<Call("export", <<filename>>, 0), SavedMessage>>,
                             m.final, m.rendered)

MixAndSave(items, filename) ==
    /\ mix_and_save(items, filename)
    /\ UNCHANGED <<tempo, patterns, melodies, current_playback, assets, handles>>

Next ==
    \/ \E v \in TempoInputs : SetTempo(v)
    \/ \E n \in PatternNames, vals \in PatternInputs : DefinePattern(n, vals)
    \/ \E n \in MelodyNames, notes \in MelodyInputs : DefineMelody(n, notes)
    \/ \E items \in SeqsUpTo(Names, MaxItems) : MixAndPlay(items)
    \/ \E items \in SeqsUpTo(Names, MaxItems), f \in Filenames : MixAndSave(items, f)
    \/ StopPlayback

Spec == Init /\ [][Next]_vars

(* ------------------------------------------- the mixer as a pure function *)
ValidTempos == {t \in TempoInputs \cup {DefaultTempo} : MinTempo <= t /\ t <= MaxTempo}

Maps(keys, values) == UNION {[d -> values] : d \in SUBSET keys}

\* a sequencer after some definitions and tempo changes, nothing played yet
MixInit ==
    /\ tempo \in ValidTempos
    /\ patterns \in Maps(Names, MixPatternInputs)
    /\ melodies \in Maps(Names, MelodyInputs)
    /\ current_playback = 0
    /\ handles = <<>>
    /\ assets \in AssetEnvs
    /\ last = Outcome("init", 0, "", <<>>, <<>>, None, <<>>)

MixNext ==
    \/ \E items \in SeqsUpTo(Names, MaxItems) :
            last.op = "init" /\ MixAndPlay(items)
    \/ \E items \in SeqsUpTo(Names, MaxItems), f \in Filenames :
            last.op = "init" /\ MixAndSave(items, f)

MixSpec == MixInit /\ [][MixNext]_vars

(* --------------------------------------- the renderers as pure functions *)
RenderOutcome(op, name, beat_ms, calls, out) ==
    Outcome(op, beat_ms, name, <<>>, calls, out, <<>>)

CallCreatePatternSound(name) ==
    /\ name \in DOMAIN patterns
    /\ last' = RenderOutcome("create_pattern_sound", name, BeatMs(tempo),
                              PatternLoads(name),
                              create_pattern_sound(name, BeatMs(tempo)))
    /\ UNCHANGED <<tempo, patterns, melodies, current_playback, assets, handles>>

CallCreateMelodySound(name) ==
    /\ name \in DOMAIN melodies
    /\ last' = RenderOutcome("create_melody_sound", name, BeatMs(tempo),
                              MelodyLoads(name),
                              create_melody_sound(name, BeatMs(tempo)))
    /\ UNCHANGED <<tempo, patterns, melodies, current_playback, assets, handles>>

RenderInit ==
    /\ tempo \in ValidTempos
    /\ current_playback = 0
    /\ handles = <<>>
    /\ last = Outcome("init", 0, "", <<>>, <<>>, None, <<>>)
    /\ \/ /\ patterns \in [{"drums"} -> SeqsUpTo(FlagValues, MaxPatLen)]
          /\ melodies = EmptyMap
          /\ assets \in [{SamplePath("drums")} -> RenderLoads]
       \/ /\ patterns = EmptyMap
          /\ melodies \in [{"lead"} -> SeqsUpTo(Notes, MaxMelLen)]
          /\ assets \in [NotePaths -> RenderLoads]

RenderNext ==
    \/ \E n \in Names : CallCreatePatternSound(n)
    \/ \E n \in Names : CallCreateMelodySound(n)

RenderSpec == RenderInit /\ [][RenderNext]_vars

(* ================================================================ claims *)
HasCall(c) == \E i \in DOMAIN last.calls : last.calls[i].call = c
InRange(v) == MinTempo <= v /\ v <= MaxTempo
IsMixOp == last.op \in {"mix", "save"}
Delivered == HasCall("start") \/ HasCall("export")
Playing == {h \in DOMAIN handles : handles[h].status = "playing"}

\* C1: set_tempo(v) commits v when 20 <= v <= 300 and otherwise keeps the
\* tempo it found (no reset to 120) and warns; every other operation leaves
\* the tempo alone, so the tempo stays in [20, 300] from the initial 120 on.
C1_SetTempoContract ==
    /\ [](tempo \in MinTempo..MaxTempo)
    /\ [][/\ last'.op = "set_tempo" =>
                /\ tempo' = IF InRange(last'.arg) THEN last'.arg ELSE tempo
                /\ last'.calls = IF InRange(last'.arg) THEN <<>> ELSE <<TempoWarning>>
          /\ last'.op # "set_tempo" => tempo' = tempo]_vars

\* a rejected value met a tempo other than the default, which was kept
C1_Witness ==
    /\ last.op = "set_tempo"
    /\ last.arg = 301
    /\ tempo = 20

\* C2: a mix or save request with an empty item list is reported as an
\* error, produces no buffer and reaches neither the Playback Sink nor the
\* File Exporter.
C2_EmptyRequestRejected ==
    (IsMixOp /\ last.items = <<>>) =>
        /\ last.calls = <<NoItemsError>>
        /\ last.out = None
        /\ ~Delivered

\* C3: a mix_and_play with a non-empty item list asks the handle started by
\* the previous call to stop before it starts the sink again, so at most one
\* handle is started and not yet stopped.
C3_StopBeforeStart ==
    /\ Cardinality(Playing) <= 1
    /\ (last.op = "mix" /\ last.items # <<>>) =>
           LET n == Len(last.calls)
               h == Len(handles)
           IN  /\ current_playback = h
               /\ last.calls[n] = Call("start", <<>>, h)
               /\ Playing = {h}
               /\ h > 1 => /\ last.calls[n - 1] = Call("stop", <<>>, h - 1)
                           /\ handles[h - 1].status = "stopped"

\* a second playback was started while the first was still playing
C3_Witness ==
    /\ last.op = "mix"
    /\ Len(handles) = 2
    /\ Len(last.calls) >= 2
    /\ last.calls[Len(last.calls) - 1] = Call("stop", <<>>, 1)
    /\ handles[1].status = "stopped"
    /\ handles[2].status = "playing"

\* C4: the buffer handed to the Playback Sink or the File Exporter lasts
\* exactly 4 * (60000 div tempo) for the tempo active at that call, whatever
\* the items render to: no clip of it reaches past the measure boundary, and
\* the playback started is of that duration.
C4_MeasureDuration ==
    (IsMixOp /\ Delivered) =>
        /\ last.out.ok
        /\ SegLen(last.out) = BeatsPerMeasure * (MsPerMinute \div tempo)
        /\ \A i \in DOMAIN last.out.clips :
               /\ last.out.clips[i].len > 0
               /\ last.out.clips[i].at + last.out.clips[i].len <= SegLen(last.out)
        /\ last.op = "mix" => handles[Len(handles)].dur = SegLen(last.out)

\* after a tempo change to 300 a track longer than the 800 ms measure was
\* overlaid and cut at the boundary, while an earlier playback keeps the
\* duration of the tempo it was mixed at
C4_Witness ==
    /\ last.op = "mix"
    /\ tempo = 300
    /\ \E i \in DOMAIN last.rendered : SegLen(last.rendered[i].sound) > SegLen(last.out)
    /\ \E i \in DOMAIN last.out.clips :
           /\ last.out.clips[i].at + last.out.clips[i].len = SegLen(last.out)
           /\ last.out.clips[i].len < assets[last.out.clips[i].id]
    /\ Len(handles) = 2
    /\ handles[1].dur > handles[2].dur

Resolved(name) == name \in DOMAIN patterns \/ name \in DOMAIN melodies
LoadFails(name) == assets[SamplePath(name)] = NotFound

RECURSIVE OverlaidClips(_, _)
OverlaidClips(rendered, dur) ==
    IF rendered = <<>> THEN <<>>
    ELSE (IF Head(rendered).sound.ok
          THEN TruncClips(Head(rendered).sound.clips, dur) ELSE <<>>)
         \o OverlaidClips(Tail(rendered), dur)

\* C5: when the sample named after a pattern fails to load, the pattern
\* renders to no buffer whatever its flags are, nothing of it is overlaid,
\* and the mix still delivers the measure with the other items overlaid.
C5_FailedPatternVoided ==
    (/\ IsMixOp
     /\ \E i \in DOMAIN last.items :
            last.items[i] \in DOMAIN patterns /\ LoadFails(last.items[i])) =>
        /\ Delivered
        /\ last.out.ok
        /\ \A i \in DOMAIN last.rendered :
               (last.rendered[i].kind = "pattern" /\ LoadFails(last.rendered[i].name))
                   => last.rendered[i].sound = None
        /\ \A k \in DOMAIN last.out.clips :
               \A n \in DOMAIN patterns :
                   LoadFails(n) => last.out.clips[k].id # SamplePath(n)
        /\ last.out.clips = OverlaidClips(last.rendered, SegLen(last.out))

\* a pattern with a hit whose sample is missing was mixed with a second item
\* that is heard in the delivered measure
C5_Witness ==
    /\ last.op = "mix"
    /\ last.items = <<"drums", "lead">>
    /\ "drums" \in DOMAIN patterns
    /\ patterns["drums"] = <<1, 0>>
    /\ LoadFails("drums")
    /\ Delivered
    /\ last.out.clips # <<>>

RenderedPattern == last.op = "create_pattern_sound"
RenderedMelody == last.op = "create_melody_sound"
Clips == {last.out.clips[k] : k \in DOMAIN last.out.clips}

\* the clip a slot holds when it holds the whole sample stored at path
SlotClip(i, path, beat_ms) ==
    [id |-> path, at |-> (i - 1) * beat_ms, len |-> assets[path]]

\* the clips that start inside slot i
InSlot(i, beat_ms) ==
    {c \in Clips : (i - 1) * beat_ms <= c.at /\ c.at < i * beat_ms}

\* C6: a melody of n notes whose loadable samples are no longer than beat_ms
\* renders to a track of exactly n * beat_ms; slot i is silent when note i
\* fails to load and otherwise holds note i's sample from the start of the
\* slot, the rest of the slot silent; a failed note voids nothing else.
C6_MelodySlots ==
    LET notes == melodies[last.name]
        beat_ms == last.arg
    IN  (/\ RenderedMelody
         /\ \A i \in DOMAIN notes : assets[NotePath(notes[i])] <= beat_ms) =>
            /\ last.out.ok
            /\ SegLen(last.out) = Len(notes) * beat_ms
            /\ \A i \in DOMAIN notes :
                   InSlot(i, beat_ms) =
                       IF assets[NotePath(notes[i])] > 0
                       THEN {SlotClip(i, NotePath(notes[i]), beat_ms)}
                       ELSE {}
            /\ Len(last.out.clips) =
                   Cardinality({i \in DOMAIN notes : assets[NotePath(notes[i])] > 0})

\* three notes at 120 bpm, the middle one missing, the outer ones 200 ms
C6_Witness ==
    /\ RenderedMelody
    /\ melodies[last.name] = <<"C4", "D4", "C4">>
    /\ assets[NotePath("D4")] = NotFound
    /\ assets[NotePath("C4")] = 200
    /\ last.arg = 500
    /\ SegLen(last.out) = 1500
    /\ Len(last.out.clips) = 2

\* C7: a pattern of n flags whose sample loads with duration d <= beat_ms
\* renders, after a single load, to a track of exactly n * beat_ms; the slot
\* of a flag 1 holds the sample in its first d ms and is silent after it,
\* the slot of a flag 0 is silent.
C7_PatternSlots ==
    LET pattern == patterns[last.name]
        beat_ms == last.arg
        path == SamplePath(last.name)
    IN  (/\ RenderedPattern
         /\ assets[path] # NotFound
         /\ assets[path] <= beat_ms) =>
            /\ last.calls = <<LoadCall(path)>>
            /\ last.out.ok
            /\ SegLen(last.out) = Len(pattern) * beat_ms
            /\ \A i \in DOMAIN pattern :
                   /\ (pattern[i] = 1 /\ assets[path] > 0) =>
                          InSlot(i, beat_ms) = {SlotClip(i, path, beat_ms)}
                   /\ pattern[i] = 0 => InSlot(i, beat_ms) = {}

Normalised(pattern) == [i \in DOMAIN pattern |-> IF pattern[i] # 0 THEN 1 ELSE 0]

\* C9: every nonzero flag is rendered as a hit slot and every zero flag as a
\* rest slot: the track of a pattern is the track of the same pattern with
\* each nonzero flag written as 1.
C9_NonzeroIsHit ==
    LET path == SamplePath(last.name)
    IN  (RenderedPattern /\ assets[path] > 0) =>
            last.out = PatternLoop(Normalised(patterns[last.name]),
                                   Sample(path, assets[path]), last.arg, Silent(0))

RECURSIVE SlotSum(_, _)
SlotSum(clips, beat_ms) ==
    IF clips = <<>> THEN 0
    ELSE Max(beat_ms, Head(clips).len) + SlotSum(Tail(clips), beat_ms)

\* C10: the padding after a sample longer than beat_ms is empty, never
\* negative: the sample is kept whole, the next slot starts where it ends,
\* and a track of n slots lasts the sum over its slots of
\* max(beat_ms, duration of the slot's sample), a slot without a sample
\* counting beat_ms.
C10_PaddingClamped ==
    LET n == IF RenderedPattern THEN Len(patterns[last.name])
             ELSE Len(melodies[last.name])
        clips == last.out.clips
        beat_ms == last.arg
    IN  ((RenderedPattern \/ RenderedMelody) /\ last.out.ok) =>
            /\ \A k \in DOMAIN clips : clips[k].len = assets[clips[k].id]
            /\ \A k \in DOMAIN clips :
                   k > 1 => clips[k].at >= clips[k - 1].at + clips[k - 1].len
            /\ \A k \in DOMAIN clips : clips[k].at + clips[k].len <= SegLen(last.out)
            /\ Len(clips) <= n
            /\ SegLen(last.out) =
                   SlotSum(clips, beat_ms) + (n - Len(clips)) * beat_ms

\* hit, rest, hit with a 900 ms sample at 300 bpm (beat 200 ms): 2000 ms
C10_Witness ==
    /\ RenderedPattern
    /\ patterns[last.name] = <<1, 0, 1>>
    /\ assets[SamplePath(last.name)] = 900
    /\ last.arg = 200
    /\ SegLen(last.out) = 2000
    /\ Len(last.out.clips) = 2
    /\ last.out.clips[2].at = 1100

====
